---- MODULE Spec2Model ----
(***************************************************************************)
(* Emby webhook handler (src/src/webhook/emby.py) and the safe metadata    *)
(* enhancer (src/src/webhook/utils/metadata_enhancer.py).                  *)
(*                                                                         *)
(* One delivery is one run of EmbyWebhook.handle.  A run is cut at the     *)
(* points where the coroutine really suspends: the user-listing GET, the   *)
(* item GET and the submit_task call.  Everything between two suspension   *)
(* points is one atomic action, as it is on the asyncio event loop.        *)
(***************************************************************************)
EXTENDS Integers, Sequences, FiniteSets, TLC

(***************************************************************************)
(* Python values.  None is Python's None (JSON null, the result of         *)
(* dict.get on an absent key); Missing marks a key that is not in a dict.  *)
(***************************************************************************)
None == "<None>"
Missing == "<missing>"

\* Python truthiness of an optional string: None and "" are falsy.
Truthy(v) == v \notin {None, Missing, ""}

\* JSON numbers where the code needs an integer: absent/null, an integer,
\* or a non-integer value (here: the string that spells the integer i).
JNone == [t |-> "none", i |-> 0]
JInt(n) == [t |-> "int", i |-> n]
JStr(n) == [t |-> "str", i |-> n]

\* f"{n:02d}" for an integer n.
\* The number rendered without the minimum width.
Pad2_unpadded(n) == ToString(n)

Pad2(n) == IF n >= 0 /\ n < 10 THEN "0" \o ToString(n) ELSE ToString(n)

\* f"{v}" for a JSON number (an integer, or the string that spells one).
Plain(n) == ToString(n)

(***************************************************************************)
(* Provider identifier maps.  A ProviderIds dict is a function on          *)
(* AliasKeys; a key that is not in the dict maps to Missing.               *)
(***************************************************************************)
MetaKeys == {"tmdb_id", "imdb_id", "tvdb_id", "douban_id", "bangumi_id"}

id_mappings ==
    [tmdb_id    |-> <<"Tmdb", "TheMovieDb", "TMDB">>,
     imdb_id    |-> <<"Imdb", "IMDB", "IMDb">>,
     tvdb_id    |-> <<"Tvdb", "TheTVDB", "TVDB">>,
     douban_id  |-> <<"DoubanID", "Douban", "douban">>,
     bangumi_id |-> <<"Bangumi", "bangumi", "BangumiID">>]

AliasKeys == UNION {{id_mappings[k][i] : i \in 1..3} : k \in MetaKeys}

EmptyMap == [a \in AliasKeys |-> Missing]

\* The dict literal f, e.g. [Tmdb |-> "1"], as a ProviderIds dict.
MapOf(f) == [a \in AliasKeys |-> IF a \in DOMAIN f THEN f[a] ELSE Missing]

\* dict.get(key)
Get(m, key) == IF m[key] = Missing THEN None ELSE m[key]

AllAbsent == [k \in MetaKeys |-> None]

\* any(metadata.values())
AnyValue(md) == \E k \in MetaKeys : Truthy(md[k])

\* The inner loop of the extraction: the first name of field_names that is
\* in provider_ids with a truthy value wins; str() of a string is itself.
FirstAlias(field_names, provider_ids) ==
    LET hits == {i \in 1..Len(field_names) :
                    /\ provider_ids[field_names[i]] # Missing
                    /\ Truthy(provider_ids[field_names[i]])}
    IN  IF hits = {} THEN None
        ELSE provider_ids[field_names[CHOOSE i \in hits : \A j \in hits : i <= j]]

\* SafeMetadataEnhancer._extract_metadata_ids, on the ProviderIds dict of an
\* API response.
extract_metadata_ids(provider_ids) ==
    [k \in MetaKeys |-> FirstAlias(id_mappings[k], provider_ids)]

\* _extract_metadata_from_webhook, on the ProviderIds dict of the payload's
\* Item (the same alias table, a second copy of the loop).
extract_metadata_from_webhook(provider_ids) ==
    [k \in MetaKeys |-> FirstAlias(id_mappings[k], provider_ids)]

\* An Optional[Dict]: some = FALSE is Python's None.
NoMd == [some |-> FALSE, ids |-> AllAbsent]
SomeMd(ids) == [some |-> TRUE, ids |-> ids]

\* A plausible slip: the item-level value wins over the series-level one.
merge_metadata_item_first(series_metadata, item_metadata) ==
    [k \in MetaKeys |->
        IF item_metadata.some /\ Truthy(item_metadata.ids[k])
        THEN item_metadata.ids[k]
        ELSE IF series_metadata.some /\ Truthy(series_metadata.ids[k])
        THEN series_metadata.ids[k]
        ELSE None]

\* SafeMetadataEnhancer._merge_metadata: start from the item's truthy
\* values, then overwrite with the series' truthy values.
merge_metadata(series_metadata, item_metadata) ==
    LET base == [k \in MetaKeys |->
                    IF item_metadata.some /\ Truthy(item_metadata.ids[k])
                    THEN item_metadata.ids[k] ELSE None]
    IN  [k \in MetaKeys |->
            IF series_metadata.some /\ Truthy(series_metadata.ids[k])
            THEN series_metadata.ids[k] ELSE base[k]]

\* The handler's basic extraction: one fixed key per kind.
basic_key ==
    [tmdb_id |-> "Tmdb", imdb_id |-> "IMDB", tvdb_id |-> "Tvdb",
     douban_id |-> "DoubanID", bangumi_id |-> "Bangumi"]

basic_ids(provider_ids) == [k \in MetaKeys |-> Get(provider_ids, basic_key[k])]

\* A plausible slip: the operands of "or" swapped, basic before enhanced.
final_id_basic_first(enhanced, basic) ==
    LET f == IF Truthy(basic) THEN basic ELSE enhanced
    IN  IF Truthy(f) THEN f ELSE None

\* final_x_id = enhanced.get(x) or basic_x, then str(final) if final else None.
final_id(enhanced, basic) ==
    LET f == IF Truthy(enhanced) THEN enhanced ELSE basic
    IN  IF Truthy(f) THEN f ELSE None


(***************************************************************************)
(* Webhook payloads.  body is how request.json() ends: "invalid" (it       *)
(* raises), "array" (valid JSON that is not an object) or "object".  Item  *)
(* is "missing", "empty" ({} or null), "string" (a truthy non-object) or   *)
(* "object"; the remaining fields are those of the Item object.            *)
(* ProviderIds is [kind, m]: the key is missing, null, or the dict m.      *)
(***************************************************************************)
Pids(kind, m) == [kind |-> kind, m |-> m]

Payload(body, event, item, type, id, sid, name, sname, pin, inn, year, pids) ==
    [body |-> body, Event |-> event, Item |-> item, Type |-> type, Id |-> id,
     SeriesId |-> sid, Name |-> name, SeriesName |-> sname,
     ParentIndexNumber |-> pin, IndexNumber |-> inn, ProductionYear |-> year,
     ProviderIds |-> pids]

NoPayload ==
    Payload("none", None, "missing", None, None, None, None, None, JNone, JNone,
            JNone, Pids("missing", EmptyMap))

AcceptedEvents == {"item.add", "library.new", "playback.start"}

\* item.get("ProviderIds", {}) as a dict (only called when it is one).
ProviderIdsOf(payload) ==
    IF payload.ProviderIds.kind = "object" THEN payload.ProviderIds.m ELSE EmptyMap

(***************************************************************************)
(* handle, from the request to the enrichment call (emby.py 18-70 and      *)
(* 88-98), in the order of the code.  The result is                        *)
(*   "http400"  HTTPException(400) raised,                                 *)
(*   "error"    another exception leaves handle,                           *)
(*   "ignored"  an early return,                                           *)
(*   "enrich"   the enrichment call is reached.                            *)
(***************************************************************************)
validate(payload) ==
    IF payload.body = "invalid" THEN "http400"
    ELSE IF payload.body # "object" THEN "error"          \* payload.get: AttributeError
    ELSE IF payload.Event \notin AcceptedEvents THEN "ignored"
    ELSE IF payload.Item \in {"missing", "empty"} THEN "ignored"
    ELSE IF payload.Item # "object" THEN "error"          \* item.get: AttributeError
    ELSE IF payload.Type \notin {"Episode", "Movie"} THEN "ignored"
    ELSE IF payload.ProviderIds.kind = "null" THEN "error" \* None.get: AttributeError
    ELSE IF payload.Type = "Episode"
    THEN IF ~ ( /\ Truthy(payload.SeriesName)
                /\ payload.ParentIndexNumber.t # "none"
                /\ payload.IndexNumber.t # "none" )
         THEN "ignored"
         ELSE IF payload.ParentIndexNumber.t # "int" \/ payload.IndexNumber.t # "int"
         THEN "error"                                     \* format code 'd': ValueError
         ELSE "enrich"
    ELSE IF ~Truthy(payload.Name) THEN "ignored"
    ELSE "enrich"

\* The media identity the handler settles on (emby.py 83-86, 111-116).
anime_title(payload) ==
    IF payload.Type = "Episode" THEN payload.SeriesName ELSE payload.Name

season_number(payload) ==
    IF payload.Type = "Episode" THEN payload.ParentIndexNumber.i ELSE 1

episode_number(payload) ==
    IF payload.Type = "Episode" THEN payload.IndexNumber.i ELSE 1

search_keyword(payload) ==
    IF payload.Type = "Episode"
    THEN payload.SeriesName \o " S" \o Pad2(payload.ParentIndexNumber.i)
            \o "E" \o Pad2(payload.IndexNumber.i)
    ELSE payload.Name

\* The title prefix stands for the source's (non-ASCII) prefix, in ASCII.
task_title(payload) ==
    IF payload.Type = "Episode"
    THEN "Webhook(emby) search: " \o payload.SeriesName \o " - S"
            \o Pad2(payload.ParentIndexNumber.i) \o "E" \o Pad2(payload.IndexNumber.i)
    ELSE "Webhook(emby) search: " \o payload.Name

\* A plausible slip: the season is left out of the key.
unique_key_without_season(title, season, episode) ==
    "webhook-search-" \o title \o "-E" \o Plain(episode)

unique_key(title, season, episode) ==
    "webhook-search-" \o title \o "-S" \o Plain(season) \o "-E" \o Plain(episode)

NoTask ==
    [animeTitle |-> None, mediaType |-> None, season |-> 0,
     currentEpisodeIndex |-> 0, year |-> JNone, searchKeyword |-> None,
     ids |-> AllAbsent, webhookSource |-> None, eventType |-> None,
     task_title |-> None, unique_key |-> None]

\* A plausible slip: the event type leaks into the unique key.
task_of_key_with_event(payload, enhanced_metadata) ==
    [animeTitle |-> anime_title(payload),
     mediaType |-> IF payload.Type = "Episode" THEN "tv_series" ELSE "movie",
     season |-> season_number(payload),
     currentEpisodeIndex |-> episode_number(payload),
     year |-> payload.ProductionYear,
     searchKeyword |-> search_keyword(payload),
     ids |-> [k \in MetaKeys |->
                final_id(enhanced_metadata[k], basic_ids(ProviderIdsOf(payload))[k])],
     webhookSource |-> "emby",
     eventType |-> payload.Event,
     task_title |-> task_title(payload),
     unique_key |-> unique_key(anime_title(payload), season_number(payload),
                               episode_number(payload)) \o "-" \o payload.Event]

\* emby.py 118-151: the merge of basic and enhanced IDs, the unique key and
\* the arguments of the dispatched task.
task_of(payload, enhanced_metadata) ==
    [animeTitle |-> anime_title(payload),
     mediaType |-> IF payload.Type = "Episode" THEN "tv_series" ELSE "movie",
     season |-> season_number(payload),
     currentEpisodeIndex |-> episode_number(payload),
     year |-> payload.ProductionYear,
     searchKeyword |-> search_keyword(payload),
     ids |-> [k \in MetaKeys |->
                final_id(enhanced_metadata[k], basic_ids(ProviderIdsOf(payload))[k])],
     webhookSource |-> "emby",
     eventType |-> payload.Event,
     task_title |-> task_title(payload),
     unique_key |-> unique_key(anime_title(payload), season_number(payload),
                               episode_number(payload))]


(***************************************************************************)
(* The enhancer: one process-wide SafeMetadataEnhancer instance.           *)
(***************************************************************************)
VARIABLES
    emby_url,    \* os.getenv("EMBY_SERVER_URL"), read once by __init__
    enabled,     \* self.enabled
    user_id,     \* self.user_id, the cached acting user
    session,     \* self.session: "none" or "open"
    net,         \* kinds of network operation attempted so far
    procs,       \* the deliveries: one record per handler run
    chk          \* the enhanced danmaku check in flight

vars == <<emby_url, enabled, user_id, session, net, procs, chk>>

\* A plausible slip: "is not None" instead of bool(), so that an empty
\* EMBY_SERVER_URL enables the enhancer.
enhancer_enabled_not_none(url) == url # None

\* __init__: self.enabled = bool(self.emby_url)
enhancer_enabled(url) == Truthy(url)

\* _get_session.  create_ok: whether httpx.AsyncClient(...) can be built.
\* ret is "none" (returns None), "client" or "raise".
get_session(en, sess, create_ok) ==
    IF ~en THEN [session |-> sess, ret |-> "none", attempted |-> FALSE]
    ELSE IF sess = "open" THEN [session |-> sess, ret |-> "client", attempted |-> FALSE]
    ELSE IF create_ok THEN [session |-> "open", ret |-> "client", attempted |-> TRUE]
    ELSE [session |-> sess, ret |-> "raise", attempted |-> TRUE]

\* A plausible slip: a failed resolution clears the cache.
get_user_id_response_reset(uid, resp) ==
    IF resp.kind = "ok" /\ resp.users # <<>>
    THEN LET admins == {i \in 1..Len(resp.users) : resp.users[i].admin}
             pick == IF admins # {}
                     THEN CHOOSE i \in admins : \A j \in admins : i <= j
                     ELSE 1
         IN  IF resp.users[pick].Id = Missing
             THEN [uid |-> None, ret |-> None]
             ELSE [uid |-> resp.users[pick].Id, ret |-> resp.users[pick].Id]
    ELSE [uid |-> None, ret |-> None]

\* _get_user_id after the user-listing GET (lines 52-71).  uid is the cache
\* as it is when the coroutine resumes.  The first administrator wins, else
\* the first user; a user without "Id" raises KeyError, which is caught.
get_user_id_response(uid, resp) ==
    IF resp.kind = "ok" /\ resp.users # <<>>
    THEN LET admins == {i \in 1..Len(resp.users) : resp.users[i].admin}
             pick == IF admins # {}
                     THEN CHOOSE i \in admins : \A j \in admins : i <= j
                     ELSE 1
         IN  IF resp.users[pick].Id = Missing
             THEN [uid |-> uid, ret |-> None]
             ELSE [uid |-> resp.users[pick].Id, ret |-> resp.users[pick].Id]
    ELSE [uid |-> uid, ret |-> None]

\* _fetch_item_metadata after the item GET (lines 145-158): a 200 whose body
\* is an object yields the extracted IDs; a null ProviderIds raises in the
\* extraction, and every exception and every other status yields None.
fetch_item_response(resp) ==
    IF resp.kind = "ok"
    THEN IF resp.pids.kind = "null" THEN NoMd
         ELSE SomeMd(extract_metadata_ids(
                  IF resp.pids.kind = "object" THEN resp.pids.m ELSE EmptyMap))
    ELSE NoMd

\* A plausible slip: no except clause around the body of enhance_metadata.
enhance_except_none(r) == r

\* enhance_metadata's except clause (lines 125-127).  r is [exc, ids].
enhance_except(r) == IF r.exc THEN [exc |-> FALSE, ids |-> AllAbsent] ELSE r

\* enhance_metadata, lines 116-123: merge, and the default when nothing is found.
enhance_result(series_metadata, item_metadata) ==
    LET merged == merge_metadata(series_metadata, item_metadata)
    IN  IF AnyValue(merged) THEN merged ELSE AllAbsent

\* enhance_webhook_metadata after enhance_metadata has ended with r
\* (lines 276-286): the fallback extraction from the webhook payload.
enhance_webhook_result(r, payload) ==
    IF r.exc THEN r
    ELSE IF ~AnyValue(r.ids)
    THEN IF payload.ProviderIds.kind = "null" THEN [exc |-> TRUE, ids |-> AllAbsent]
         ELSE LET w == extract_metadata_from_webhook(ProviderIdsOf(payload))
              IN  IF AnyValue(w) THEN [exc |-> FALSE, ids |-> w] ELSE r
    ELSE r

\* handle's except clause around the enrichment call (emby.py 73-81, 101-109).
handle_except(r) == IF r.exc THEN AllAbsent ELSE r.ids

(***************************************************************************)
(* A delivery.  pc is where the run is suspended:                          *)
(*   "idle"       not started          "get_users"  in the user-listing GET *)
(*   "get_item"   in the item GET      "submit"     about to call submit    *)
(*   "done"       handle has ended, as outcome says.                       *)
(***************************************************************************)
IdleProc ==
    [pc |-> "idle", payload |-> NoPayload, stage |-> "-",
     series_metadata |-> NoMd, item_metadata |-> NoMd,
     api |-> AllAbsent, enhanced |-> AllAbsent, enh_raised |-> FALSE,
     enrich_calls |-> 0, submits |-> 0, task |-> NoTask, outcome |-> "none"]

\* A context is what one atomic segment reads and writes: the enhancer's
\* fields and the running delivery.
Ctx(pr) == [uid |-> user_id, sess |-> session, net |-> net, pr |-> pr]

\* From the end of enhance_metadata (r, before its except clause) to the
\* submit_task call.
after_enhance(c, r0) ==
    LET r == enhance_except(r0)
        w == enhance_webhook_result(r, c.pr.payload)
        e == handle_except(w)
    IN  [c EXCEPT !.pr.pc = "submit", !.pr.stage = "-",
                  !.pr.api = r.ids, !.pr.enhanced = e,
                  !.pr.enh_raised = r.exc,
                  !.pr.task = task_of(c.pr.payload, e)]

\* _fetch_item_metadata up to its first suspension (lines 131-144, with
\* _get_user_id lines 42-51).  next is "raise", "none" (returns None),
\* "get_item" or "get_users".
fetch_prologue(c, create_ok) ==
    LET s == get_session(enabled, c.sess, create_ok)
        c1 == [c EXCEPT !.sess = s.session,
                        !.net = IF s.attempted THEN @ \cup {"client"} ELSE @]
    IN  IF s.ret = "raise" THEN [c |-> c1, next |-> "raise"]
        ELSE IF s.ret = "none" THEN [c |-> c1, next |-> "none"]
        ELSE IF Truthy(c1.uid)
        THEN [c |-> [c1 EXCEPT !.net = @ \cup {"item"}], next |-> "get_item"]
        ELSE [c |-> [c1 EXCEPT !.net = @ \cup {"users"}], next |-> "get_users"]

\* The item-level fetch has ended with md: merge and go on to the handler.
after_item_fetch(c, md) ==
    after_enhance([c EXCEPT !.pr.item_metadata = md],
                  [exc |-> FALSE, ids |-> enhance_result(c.pr.series_metadata, md)])

\* enhance_metadata lines 109-111: start the item-level fetch.
begin_item_fetch(c, create_ok) ==
    LET f == fetch_prologue(c, create_ok)
    IN  IF f.next = "raise" THEN after_enhance(f.c, [exc |-> TRUE, ids |-> AllAbsent])
        ELSE IF f.next = "none" THEN after_item_fetch(f.c, NoMd)
        ELSE [f.c EXCEPT !.pr.pc = f.next, !.pr.stage = "item"]

\* The series-level fetch has ended with md.
after_series_fetch(c, md) ==
    begin_item_fetch([c EXCEPT !.pr.series_metadata = md], TRUE)

\* enhance_metadata lines 103-105: start the series-level fetch.
begin_series_fetch(c, create_ok) ==
    LET f == fetch_prologue(c, create_ok)
    IN  IF f.next = "raise" THEN after_enhance(f.c, [exc |-> TRUE, ids |-> AllAbsent])
        ELSE IF f.next = "none" THEN after_series_fetch(f.c, NoMd)
        ELSE [f.c EXCEPT !.pr.pc = f.next, !.pr.stage = "series"]

\* enhance_metadata from its entry to its first suspension (lines 85-111).
\* The series id is passed for an Episode only (emby.py 74, 102).
enhance_metadata(c, create_ok) ==
    IF ~enabled THEN after_enhance(c, [exc |-> FALSE, ids |-> AllAbsent])
    ELSE IF c.pr.payload.Type = "Episode" /\ Truthy(c.pr.payload.SeriesId)
    THEN begin_series_fetch(c, create_ok)
    ELSE begin_item_fetch(c, create_ok)

\* handle from the request to its first suspension.
handle(c, payload, create_ok) ==
    LET v == validate(payload)
        c1 == [c EXCEPT !.pr = [IdleProc EXCEPT !.payload = payload]]
    IN  IF v = "enrich"
        THEN enhance_metadata([c1 EXCEPT !.pr.enrich_calls = 1,
                                         !.pr.outcome = "running"], create_ok)
        ELSE [c1 EXCEPT !.pr.pc = "done",
                        !.pr.outcome = IF v = "ignored" THEN "returned" ELSE v]


\* _fetch_item_metadata has ended with md, in the stage the delivery is in.
after_fetch(c, md) ==
    IF c.pr.stage = "series" THEN after_series_fetch(c, md)
    ELSE after_item_fetch(c, md)

\* _fetch_item_metadata lines 135-144, once _get_user_id has returned ret.
after_user_id(c, ret) ==
    IF ~Truthy(ret) THEN after_fetch(c, NoMd)
    ELSE [c EXCEPT !.pr.pc = "get_item", !.net = @ \cup {"item"}]

(***************************************************************************)
(* Bounds and input sets.                                                  *)
(***************************************************************************)
MaxSeason == 1
MaxEpisode == 12

Seasons == 0..MaxSeason
Episodes == {1, MaxEpisode}

Procs == {"d1", "d2"}
Main == "d1"

EmbyUrls == {None, "", "http://emby:8096"}

\* ProviderIds dicts a webhook may carry.
WebhookMaps ==
    {EmptyMap,
     MapOf([Tmdb |-> "100", IMDB |-> "tt9"]),
     MapOf([TheMovieDb |-> "200", Imdb |-> "tt8"]),
     MapOf([Tmdb |-> "", Douban |-> "d9", Bangumi |-> "b9"])}

WebhookPids ==
    {Pids("missing", EmptyMap), Pids("null", EmptyMap)}
        \cup {Pids("object", m) : m \in WebhookMaps}

\* ProviderIds dicts the Emby API may answer with.
ApiMaps ==
    {MapOf([Tmdb |-> "1", IMDB |-> "tt1"]),
     MapOf([TheMovieDb |-> "2", Tvdb |-> "7"]),
     MapOf([Tmdb |-> "", TMDB |-> "3", douban |-> "d1", BangumiID |-> "b1"])}

\* Answers to GET Users/{user}/Items/{item}: a status other than 200, a
\* timeout, a transport error, a body that is not JSON, or a 200 object
\* whose ProviderIds is missing, null or a dict.
ItemResponses ==
    {[kind |-> k, pids |-> Pids("missing", EmptyMap)] :
        k \in {"status", "timeout", "error", "badjson"}}
    \cup {[kind |-> "ok", pids |-> Pids("missing", EmptyMap)],
          [kind |-> "ok", pids |-> Pids("null", EmptyMap)]}
    \cup {[kind |-> "ok", pids |-> Pids("object", m)] : m \in ApiMaps}

User(id, admin) == [Id |-> id, admin |-> admin]

\* Answers to GET Users: a status other than 200, an exception, or a 200
\* with a list of users.
UsersResponses ==
    {[kind |-> "status", users |-> <<>>], [kind |-> "error", users |-> <<>>],
     [kind |-> "ok", users |-> <<>>],
     [kind |-> "ok", users |-> <<User("u1", FALSE)>>],
     [kind |-> "ok", users |-> <<User("u1", FALSE), User("u2", TRUE)>>],
     [kind |-> "ok", users |-> <<User("u1", FALSE), User(Missing, TRUE)>>]}

\* Payloads of every shape the handler tells apart.
WidePayloads ==
    {Payload(b, None, "missing", None, None, None, None, None, JNone, JNone,
             JNone, Pids("missing", EmptyMap)) : b \in {"invalid", "array"}}
    \cup {Payload("object", e, i, None, None, None, None, None, JNone, JNone,
                  JNone, Pids("missing", EmptyMap)) :
            e \in AcceptedEvents \cup {"playback.stop", None},
            i \in {"missing", "empty", "string"}}
    \cup {Payload("object", e, "object", t, "i1", None, None, None, JNone, JNone,
                  JNone, Pids("missing", EmptyMap)) :
            e \in AcceptedEvents \cup {"playback.stop", None},
            t \in {"Series", None}}
    \cup {Payload("object", e, "object", "Movie", "i1", None, n, None, JNone,
                  JNone, JInt(2020), pids) :
            e \in AcceptedEvents \cup {"playback.stop", None},
            n \in {None, "", "Foo"}, pids \in WebhookPids}
    \cup {Payload("object", e, "object", "Movie", "i1", None, "Foo", "Bar",
                  JInt(0), JInt(MaxEpisode), JInt(2020),
                  Pids("missing", EmptyMap)) : e \in AcceptedEvents}
    \cup {Payload("object", e, "object", "Episode", "i1", sid, None, sn, pin,
                  inn, JInt(2020), pids) :
            e \in AcceptedEvents \cup {"playback.stop", None},
            sid \in {None, "s1"}, sn \in {None, "", "Foo"},
            pin \in {JNone, JStr(1)} \cup {JInt(n) : n \in Seasons},
            inn \in {JNone} \cup {JInt(n) : n \in Episodes},
            pids \in WebhookPids}

\* Well-formed deliveries that differ in event, year, item ids and
\* ProviderIds, some of them for the same media unit, some for units that
\* differ only in media type, only in season, or in a title that ends like
\* a key.
NarrowPayloads ==
    {Payload("object", "item.add", "object", "Episode", "i1", "s1", None, "Foo",
             JInt(1), JInt(MaxEpisode), JInt(2020), Pids("object", EmptyMap)),
     Payload("object", "playback.start", "object", "Episode", "i2", None, None,
             "Foo", JInt(1), JInt(MaxEpisode), JNone,
             Pids("object", MapOf([Tmdb |-> "100", IMDB |-> "tt9"]))),
     Payload("object", "library.new", "object", "Movie", "i3", None, "Foo", None,
             JNone, JNone, JInt(2021),
             Pids("object", MapOf([TheMovieDb |-> "200", Imdb |-> "tt8"]))),
     Payload("object", "item.add", "object", "Episode", "i4", "s1", None, "Foo",
             JInt(1), JInt(1), JInt(2020), Pids("missing", EmptyMap)),
     Payload("object", "item.add", "object", "Episode", "i5", None, None, "Foo",
             JInt(0), JInt(1), JInt(2020), Pids("missing", EmptyMap)),
     Payload("object", "library.new", "object", "Movie", "i6", None,
             "Foo-S1-E1", None, JNone, JNone, JInt(2021),
             Pids("missing", EmptyMap))}

(***************************************************************************)
(* The enhanced danmaku check (enhanced_checker.py).                       *)
(***************************************************************************)
\* _get_metadata_priority_order: the id types in the order they are tried,
\* and the metadata key of each.
priority_order == <<"TMDB", "Douban", "IMDb", "TVDB", "Bangumi">>

key_mapping ==
    [TMDB |-> "tmdb_id", Douban |-> "douban_id", IMDb |-> "imdb_id",
     TVDB |-> "tvdb_id", Bangumi |-> "bangumi_id"]

get_metadata_priority_order(metadata) ==
    [i \in 1..Len(priority_order) |->
        [id_type |-> priority_order[i],
         id_value |-> metadata.ids[key_mapping[priority_order[i]]]]]

\* The metadata argument: None, a dict of the five ids, or a value that is
\* not a dict (a list), on which metadata.values() raises.
NoMetadata == [kind |-> "none", ids |-> AllAbsent]
ListMetadata == [kind |-> "list", ids |-> AllAbsent]
DictMetadata(ids) == [kind |-> "dict", ids |-> ids]

\* has_useful_metadata / line 43: metadata and any(metadata.values()).
has_useful_metadata(metadata) ==
    metadata.kind = "dict" /\ \E k \in MetaKeys : Truthy(metadata.ids[k])

\* One row of the Episode query: its comment count, its danmaku file path,
\* and what the file system says of that path ("none": no fs path,
\* "missing": not a file, "file").
EpisodeRow(count, path, fs) ==
    [commentCount |-> count, danmakuFilePath |-> path, fs |-> fs]

\* _check_anime_danmaku_by_id, as the truth value of what it returns (the
\* caller only tests it).  With an episode index only the first row counts.
check_anime_danmaku_by_id(rows, episode_index) ==
    IF episode_index.t # "none"
    THEN IF rows = <<>> \/ rows[1].commentCount <= 0 THEN FALSE
         ELSE IF Truthy(rows[1].danmakuFilePath) THEN rows[1].fs = "file"
         ELSE FALSE
    ELSE \E i \in 1..Len(rows) :
            /\ rows[i].commentCount > 0
            /\ Truthy(rows[i].danmakuFilePath)
            /\ rows[i].fs = "file"

\* Lines 51-63 for one id, given what the database answered: the anime
\* lookup raised ("raise"), found nothing ("none"), found an anime whose
\* episode query raised ("anime_raise"), or found an anime with rows.
lookup_outcome(ans, episode_index) ==
    IF ans.kind \in {"raise", "anime_raise"} THEN "raise"
    ELSE IF ans.kind = "none" THEN "notfound"
    ELSE IF check_anime_danmaku_by_id(ans.rows, episode_index) THEN "danmaku"
    ELSE "nodanmaku"

\* The check in flight.  via tells which title check is pending: the one at
\* line 71 ("inner") or the one at line 187 ("wrapper").
IdleCheck ==
    [pc |-> "idle", metadata |-> NoMetadata, episode_index |-> JNone,
     pos |-> 0, lookups |-> <<>>, via |-> "none", title_calls |-> 0,
     title |-> "none", ret |-> "none"]

\* An exception has left check_anime_has_danmaku: lines 184-187.
wrapper_except(k) == [k EXCEPT !.pc = "title", !.via = "wrapper"]

\* The for loop of line 47 from position from on: stop at the next id
\* that is truthy (line 48), or leave the loop for the title check.
next_lookup(k, from) ==
    LET order == get_metadata_priority_order(k.metadata)
        rest == {i \in from..Len(order) : Truthy(order[i].id_value)}
    IN  IF rest = {} THEN [k EXCEPT !.pc = "title", !.via = "inner"]
        ELSE [k EXCEPT !.pc = "lookup",
                       !.pos = CHOOSE i \in rest : \A j \in rest : i <= j]

\* A plausible slip: the handler of lines 64-66 re-raises, so that one
\* failing lookup ends the loop.
lookup_except_reraise(k) == wrapper_except(k)

\* Lines 64-66: the exception is logged and the loop continues.
lookup_except(k) == next_lookup(k, k.pos + 1)

\* check_danmaku_enhanced up to its first database call.
check_danmaku_enhanced(metadata, episode_index) ==
    LET k == [IdleCheck EXCEPT !.metadata = metadata,
                               !.episode_index = episode_index]
    IN  IF metadata.kind = "list" THEN wrapper_except(k)
        ELSE IF has_useful_metadata(metadata) THEN next_lookup(k, 1)
        ELSE [k EXCEPT !.pc = "title", !.via = "inner"]

\* Lines 51-66 once the database has answered for the id at k.pos.
after_lookup(k, ans) ==
    LET id_type == get_metadata_priority_order(k.metadata)[k.pos].id_type
        outcome == lookup_outcome(ans, k.episode_index)
        k1 == [k EXCEPT !.lookups =
                  Append(@, [id_type |-> id_type, outcome |-> outcome])]
    IN  IF outcome = "danmaku" THEN [k1 EXCEPT !.pc = "done", !.ret = "True"]
        ELSE IF outcome = "raise" THEN lookup_except(k1)
        ELSE next_lookup(k1, k1.pos + 1)

\* Lines 70-76 and 186-190 once crud.check_anime_has_danmaku has answered.
after_title_check(k, ans) ==
    [k EXCEPT !.pc = "done", !.title_calls = @ + 1, !.title = ans,
              !.ret = IF ans = "raise" THEN "False" ELSE ans]

\* Inputs of the check.
CheckIdValues == {None, "7"}

CheckMetadata ==
    {NoMetadata, ListMetadata}
    \cup {DictMetadata(ids) : ids \in [MetaKeys -> CheckIdValues]}
    \cup {DictMetadata([ids EXCEPT !["tmdb_id"] = ""]) :
            ids \in [MetaKeys -> CheckIdValues]}

CheckEpisodes == {JNone, JInt(1)}

RowLists ==
    {<<>>,
     <<EpisodeRow(3, "/d/1.xml", "file")>>,
     <<EpisodeRow(3, "/d/1.xml", "missing")>>,
     <<EpisodeRow(3, "/d/1.xml", "none")>>,
     <<EpisodeRow(3, None, "none")>>,
     <<EpisodeRow(0, "/d/1.xml", "file"), EpisodeRow(3, "/d/2.xml", "file")>>}

DbAnswers ==
    {[kind |-> k, rows |-> <<>>] : k \in {"raise", "none", "anime_raise"}}
    \cup {[kind |-> "anime", rows |-> rows] : rows \in RowLists}

\* crud.check_anime_has_danmaku raises or returns a truth value.
TitleAnswers == {"raise", "True", "False"}

(***************************************************************************)
(* Actions.                                                                *)
(***************************************************************************)
Init ==
    /\ emby_url \in EmbyUrls
    /\ enabled = enhancer_enabled(emby_url)
    /\ user_id = None
    /\ session = "none"
    /\ net = {}
    /\ procs = [p \in Procs |-> IdleProc]
    /\ chk = IdleCheck

Commit(p, c) ==
    /\ user_id' = c.uid
    /\ session' = c.sess
    /\ net' = c.net
    /\ procs' = [procs EXCEPT ![p] = c.pr]
    /\ UNCHANGED <<emby_url, enabled, chk>>

\* A webhook request arrives and handle runs to its first suspension.
Receive(p, payload, create_ok) ==
    /\ procs[p].pc = "idle"
    /\ Commit(p, handle(Ctx(procs[p]), payload, create_ok))

\* The user-listing GET of delivery p ends with resp.
UsersResponse(p, resp) ==
    /\ procs[p].pc = "get_users"
    /\ LET c == Ctx(procs[p])
           r == get_user_id_response(c.uid, resp)
       IN  Commit(p, after_user_id([c EXCEPT !.uid = r.uid], r.ret))

\* The item GET of delivery p ends with resp.
ItemResponse(p, resp) ==
    /\ procs[p].pc = "get_item"
    /\ Commit(p, after_fetch(Ctx(procs[p]), fetch_item_response(resp)))

\* emby.py 151: submit_task is called; it returns (ok) or raises.
SubmitTask(p, ok) ==
    /\ procs[p].pc = "submit"
    /\ procs' = [procs EXCEPT ![p].pc = "done", ![p].submits = @ + 1,
                              ![p].outcome = IF ok THEN "returned" ELSE "error"]
    /\ UNCHANGED <<emby_url, enabled, user_id, session, net, chk>>

\* The response has gone out; the handler run and its locals are discarded.
Finish(p) ==
    /\ procs[p].pc = "done"
    /\ procs' = [procs EXCEPT ![p] = IdleProc]
    /\ UNCHANGED <<emby_url, enabled, user_id, session, net, chk>>

\* One delivery at a time, payloads of every shape.
Next ==
    \/ \E payload \in WidePayloads, create_ok \in BOOLEAN :
            Receive(Main, payload, create_ok)
    \/ \E resp \in UsersResponses : UsersResponse(Main, resp)
    \/ \E resp \in ItemResponses : ItemResponse(Main, resp)
    \/ \E ok \in BOOLEAN : SubmitTask(Main, ok)
    \/ Finish(Main)

Spec == Init /\ [][Next]_vars

\* Concurrent deliveries of well-formed payloads.
NextConc ==
    \/ \E p \in Procs, payload \in NarrowPayloads, create_ok \in BOOLEAN :
            Receive(p, payload, create_ok)
    \/ \E p \in Procs, resp \in UsersResponses : UsersResponse(p, resp)
    \/ \E p \in Procs, resp \in ItemResponses : ItemResponse(p, resp)
    \/ \E p \in Procs, ok \in BOOLEAN : SubmitTask(p, ok)
    \/ \E p \in Procs : Finish(p)

ConcSpec == Init /\ [][NextConc]_vars

\* check_danmaku_enhanced is called.
CheckStart(metadata, episode_index) ==
    /\ chk.pc = "idle"
    /\ chk' = check_danmaku_enhanced(metadata, episode_index)
    /\ UNCHANGED <<emby_url, enabled, user_id, session, net, procs>>

\* The database answers the lookup for the id being tried.
LookupResponse(ans) ==
    /\ chk.pc = "lookup"
    /\ chk' = after_lookup(chk, ans)
    /\ UNCHANGED <<emby_url, enabled, user_id, session, net, procs>>

\* The title-based check answers.
TitleResponse(ans) ==
    /\ chk.pc = "title"
    /\ chk' = after_title_check(chk, ans)
    /\ UNCHANGED <<emby_url, enabled, user_id, session, net, procs>>

\* The caller has the result; the call's locals are discarded.
CheckFinish ==
    /\ chk.pc = "done"
    /\ chk' = IdleCheck
    /\ UNCHANGED <<emby_url, enabled, user_id, session, net, procs>>

NextCheck ==
    \/ \E metadata \in CheckMetadata, episode_index \in CheckEpisodes :
            CheckStart(metadata, episode_index)
    \/ \E ans \in DbAnswers : LookupResponse(ans)
    \/ \E ans \in TitleAnswers : TitleResponse(ans)
    \/ CheckFinish

CheckSpec == Init /\ [][NextCheck]_vars


(***************************************************************************)
(* Properties.                                                             *)
(***************************************************************************)
\* The delivery has ended.
Ended(p) == procs[p].pc = "done"

\* The delivery has built its task: enrichment has returned to the handler.
TaskBuilt(p) == procs[p].pc \in {"submit", "done"} /\ procs[p].enrich_calls = 1

\* The delivery has dispatched its task.
Dispatched(p) == procs[p].pc = "done" /\ procs[p].submits > 0

\* The payload is an accepted event for an Episode with series title, season
\* number and episode number, or for a Movie with a title.
Dispatchable(payload) ==
    /\ payload.body = "object"
    /\ payload.Event \in AcceptedEvents
    /\ payload.Item = "object"
    /\ \/ /\ payload.Type = "Episode"
          /\ Truthy(payload.SeriesName)
          /\ payload.ParentIndexNumber.t = "int"
          /\ payload.IndexNumber.t = "int"
       \/ /\ payload.Type = "Movie"
          /\ Truthy(payload.Name)

\* C1: handle raises only when the body is not JSON, and then the 400
\* client error; for every body that parses, handle returns normally.
C1_OnlyInvalidJsonRaises ==
    \A p \in Procs :
        Ended(p) =>
            IF procs[p].payload.body = "invalid"
            THEN procs[p].outcome = "http400"
            ELSE procs[p].outcome = "returned"

\* C2: a delivery whose payload is dispatchable calls submit_task exactly
\* once, after its one enrichment call has returned.
C2_DispatchedExactlyOnce ==
    \A p \in Procs :
        Ended(p) /\ Dispatchable(procs[p].payload) =>
            procs[p].submits = 1 /\ procs[p].enrich_calls = 1

\* The required fields are non-absent.
RequiredFieldsPresent(payload) ==
    \/ /\ payload.Type = "Episode"
       /\ Truthy(payload.SeriesName)
       /\ payload.ParentIndexNumber.t # "none"
       /\ payload.IndexNumber.t # "none"
    \/ /\ payload.Type = "Movie"
       /\ Truthy(payload.Name)

Accepted(payload) ==
    /\ payload.Event \in AcceptedEvents
    /\ payload.Item = "object"
    /\ payload.Type \in {"Episode", "Movie"}
    /\ RequiredFieldsPresent(payload)

\* C3: a task is submitted only for an accepted event, an Episode or Movie
\* and present required fields; for a JSON object failing one of these
\* there is no task, no enrichment call and no error.
C3_RejectedPayloadIsSilentNoOp ==
    \A p \in Procs :
        /\ procs[p].submits > 0 => Accepted(procs[p].payload)
        /\ Ended(p) /\ procs[p].payload.body = "object"
                /\ ~Accepted(procs[p].payload) =>
              /\ procs[p].submits = 0
              /\ procs[p].enrich_calls = 0
              /\ procs[p].outcome = "returned"

\* The basic value of kind k: what the payload's ProviderIds holds under the
\* key the handler reads for k.
BasicValue(payload, k) == Get(ProviderIdsOf(payload), basic_key[k])

\* C4: for each kind, the dispatched ID is the enhanced value when it is
\* present, otherwise the basic value when it is present, otherwise absent.
C4_MergeLeftBiased ==
    \A p \in Procs :
        TaskBuilt(p) =>
            \A k \in MetaKeys :
                procs[p].task.ids[k] =
                    IF Truthy(procs[p].enhanced[k]) THEN procs[p].enhanced[k]
                    ELSE IF Truthy(BasicValue(procs[p].payload, k))
                    THEN BasicValue(procs[p].payload, k)
                    ELSE None

\* A task was dispatched where an enhanced value won over a different basic
\* value for one kind, and a basic value filled an absent enhanced one for
\* another.
C4_Witness ==
    \E p \in Procs :
        /\ Dispatched(p)
        /\ \E k \in MetaKeys :
              /\ Truthy(procs[p].enhanced[k])
              /\ Truthy(BasicValue(procs[p].payload, k))
              /\ procs[p].enhanced[k] # BasicValue(procs[p].payload, k)
        /\ \E k \in MetaKeys :
              /\ ~Truthy(procs[p].enhanced[k])
              /\ Truthy(BasicValue(procs[p].payload, k))

\* C5: the result of enhance_metadata is, per kind, the series-level value
\* when present, otherwise the item-level value when present, otherwise
\* absent; an absent series result erases nothing.
C5_SeriesOverItem ==
    \A p \in Procs :
        TaskBuilt(p) =>
            \A k \in MetaKeys :
                procs[p].api[k] =
                    IF procs[p].series_metadata.some
                            /\ Truthy(procs[p].series_metadata.ids[k])
                    THEN procs[p].series_metadata.ids[k]
                    ELSE IF procs[p].item_metadata.some
                            /\ Truthy(procs[p].item_metadata.ids[k])
                    THEN procs[p].item_metadata.ids[k]
                    ELSE None

\* Both fetches succeeded; for one kind the series and the item disagree,
\* for another only the item has a value.
C5_Witness ==
    \E p \in Procs :
        /\ TaskBuilt(p)
        /\ procs[p].series_metadata.some /\ procs[p].item_metadata.some
        /\ \E k \in MetaKeys :
              /\ Truthy(procs[p].series_metadata.ids[k])
              /\ Truthy(procs[p].item_metadata.ids[k])
              /\ procs[p].series_metadata.ids[k] # procs[p].item_metadata.ids[k]
        /\ \E k \in MetaKeys :
              /\ ~Truthy(procs[p].series_metadata.ids[k])
              /\ Truthy(procs[p].item_metadata.ids[k])

\* C6: the handler's basic extraction resolves each kind through the kind's
\* alias list: where enrichment gave nothing for a kind, the dispatched ID
\* is the value of the first alias the webhook's ProviderIds spells.
C6_BasicExtractionUsesAliases ==
    \A p \in Procs :
        TaskBuilt(p) =>
            \A k \in MetaKeys :
                ~Truthy(procs[p].enhanced[k]) =>
                    procs[p].task.ids[k] =
                        FirstAlias(id_mappings[k], ProviderIdsOf(procs[p].payload))

\* C7: with no base URL configured there is never a network operation, and
\* every enhance_metadata call returns the all-absent result.
C7_DisabledNoNetwork ==
    ~Truthy(emby_url) =>
        /\ net = {}
        /\ session = "none"
        /\ \A p \in Procs :
              /\ procs[p].pc \notin {"get_users", "get_item"}
              /\ TaskBuilt(p) =>
                    procs[p].api = AllAbsent /\ ~procs[p].enh_raised

\* No URL is configured and a delivery has gone through enrichment and
\* dispatch.
C7_Witness ==
    /\ ~Truthy(emby_url)
    /\ \E p \in Procs : Dispatched(p) /\ procs[p].enrich_calls = 1

\* C8: enhance_metadata never raises; it returns the five kinds, all absent
\* when every stage failed.
C8_EnhancerNeverRaises ==
    \A p \in Procs :
        TaskBuilt(p) =>
            /\ ~procs[p].enh_raised
            /\ DOMAIN procs[p].api = MetaKeys
            /\ ~procs[p].series_metadata.some /\ ~procs[p].item_metadata.some
                  => procs[p].api = AllAbsent

\* The enhancer is enabled, the HTTP client could not be built, and the
\* delivery went on to build its task.
C8_Witness ==
    /\ enabled
    /\ session = "none"
    /\ "client" \in net
    /\ \E p \in Procs : TaskBuilt(p) /\ procs[p].enrich_calls = 1

\* C9: two deliveries with the same title, season and episode carry the same
\* unique key.
C9_KeyDeterministic ==
    \A p, q \in Procs :
        /\ TaskBuilt(p) /\ TaskBuilt(q)
        /\ procs[p].task.animeTitle = procs[q].task.animeTitle
        /\ procs[p].task.season = procs[q].task.season
        /\ procs[p].task.currentEpisodeIndex = procs[q].task.currentEpisodeIndex
        => procs[p].task.unique_key = procs[q].task.unique_key

\* Two deliveries for the same media unit that differ in event, year,
\* ProviderIds and enrichment result.
C9_Witness ==
    \E p, q \in Procs :
        /\ Dispatched(p) /\ Dispatched(q)
        /\ procs[p].task.animeTitle = procs[q].task.animeTitle
        /\ procs[p].task.season = procs[q].task.season
        /\ procs[p].task.currentEpisodeIndex = procs[q].task.currentEpisodeIndex
        /\ procs[p].payload.Event # procs[q].payload.Event
        /\ procs[p].payload.ProductionYear # procs[q].payload.ProductionYear
        /\ procs[p].payload.ProviderIds # procs[q].payload.ProviderIds
        /\ procs[p].enhanced # procs[q].enhanced

C11_NormalizedIdentity ==
    \A p \in Procs :
        TaskBuilt(p) =>
            LET payload == procs[p].payload
                task == procs[p].task
                two(n) == (IF n < 10 THEN "0" ELSE "") \o ToString(n)
            IN  /\ task.eventType = payload.Event
                /\ task.webhookSource = "emby"
                /\ payload.Type = "Movie" =>
                      /\ task.season = 1
                      /\ task.currentEpisodeIndex = 1
                      /\ task.searchKeyword = payload.Name
                /\ payload.Type = "Episode" =>
                      /\ task.season = payload.ParentIndexNumber.i
                      /\ task.currentEpisodeIndex = payload.IndexNumber.i
                      /\ task.searchKeyword =
                            payload.SeriesName \o " S"
                                \o two(payload.ParentIndexNumber.i)
                                \o "E" \o two(payload.IndexNumber.i)

\* A dispatched Episode whose season needs the padding and whose episode
\* does not.
C11_Witness ==
    \E p \in Procs :
        /\ Dispatched(p)
        /\ procs[p].payload.Type = "Episode"
        /\ procs[p].payload.ParentIndexNumber.i < 10
        /\ procs[p].payload.IndexNumber.i >= 10
        /\ procs[p].task.searchKeyword = "Foo S01E" \o ToString(MaxEpisode)

\* C12: check_danmaku_enhanced never fails its caller.  It tries the ids
\* that are present in the order TMDB, Douban, IMDb, TVDB, Bangumi and
\* returns True at the first one that resolves to an anime with danmaku; an
\* id that is absent is skipped, and one that finds no anime, finds an
\* anime without danmaku or whose lookup raises is followed by the next.
\* With no such id the title check is made and its result returned, False
\* if it raises.
C12_EnhancedCheck ==
    chk.pc = "done" =>
        LET ids == chk.metadata.ids
            Present(t) ==
                chk.metadata.kind = "dict" /\
                    \/ t = "TMDB" /\ Truthy(ids["tmdb_id"])
                    \/ t = "Douban" /\ Truthy(ids["douban_id"])
                    \/ t = "IMDb" /\ Truthy(ids["imdb_id"])
                    \/ t = "TVDB" /\ Truthy(ids["tvdb_id"])
                    \/ t = "Bangumi" /\ Truthy(ids["bangumi_id"])
            present ==
                SelectSeq(<<"TMDB", "Douban", "IMDb", "TVDB", "Bangumi">>,
                          Present)
            n == Len(chk.lookups)
            tried == [i \in 1..n |-> chk.lookups[i].id_type]
            hit == \E i \in 1..n : chk.lookups[i].outcome = "danmaku"
        IN  /\ chk.ret \in {"True", "False"}
            /\ n <= Len(present)
            /\ tried = SubSeq(present, 1, n)
            /\ IF hit
               THEN chk.ret = "True" /\ chk.lookups[n].outcome = "danmaku"
               ELSE /\ n = Len(present)
                    /\ chk.title_calls = 1
                    /\ chk.ret = IF chk.title = "raise" THEN "False"
                                 ELSE chk.title

\* The first present id is skipped over an absent one, a lookup raises, a
\* later id resolves to an anime with danmaku, and the check has returned.
C12_Witness ==
    /\ chk.pc = "done"
    /\ ~Truthy(chk.metadata.ids["tmdb_id"])
    /\ \E i, j \in 1..Len(chk.lookups) :
          /\ i < j
          /\ chk.lookups[i].outcome = "raise"
          /\ chk.lookups[j].outcome = "danmaku"
    /\ chk.ret = "True"

\* C13 as stated: two deliveries whose payloads differ in media type, title,
\* season or episode never carry the same unique key.
C13_KeySeparatesMediaUnits ==
    \A p, q \in Procs :
        /\ TaskBuilt(p) /\ TaskBuilt(q)
        /\ \/ procs[p].payload.Type # procs[q].payload.Type
           \/ procs[p].task.animeTitle # procs[q].task.animeTitle
           \/ procs[p].task.season # procs[q].task.season
           \/ procs[p].task.currentEpisodeIndex
                 # procs[q].task.currentEpisodeIndex
        => procs[p].task.unique_key # procs[q].task.unique_key

\* C13 amended: two deliveries whose normalized title, season or episode
\* differ (a Movie counting as season 1, episode 1) never carry the same
\* unique key; the media type is not part of the key.
C13_KeySeparatesIdentities ==
    \A p, q \in Procs :
        /\ TaskBuilt(p) /\ TaskBuilt(q)
        /\ \/ procs[p].task.animeTitle # procs[q].task.animeTitle
           \/ procs[p].task.season # procs[q].task.season
           \/ procs[p].task.currentEpisodeIndex
                 # procs[q].task.currentEpisodeIndex
        => procs[p].task.unique_key # procs[q].task.unique_key

\* Two dispatched deliveries with the same title and episode and different
\* seasons, hence different keys.
C13_Witness ==
    \E p, q \in Procs :
        /\ Dispatched(p) /\ Dispatched(q)
        /\ procs[p].task.animeTitle = procs[q].task.animeTitle
        /\ procs[p].task.currentEpisodeIndex
              = procs[q].task.currentEpisodeIndex
        /\ procs[p].task.season # procs[q].task.season
        /\ procs[p].task.unique_key # procs[q].task.unique_key

====
